---- MODULE Spec2Model ----
(***************************************************************************)
(* Storage layer of cf-webhook: backend selection (env-helper), the three  *)
(* storage providers (D1 table store, R2 object store, in-memory maps),    *)
(* the StorageManager facade and the HTTP handlers that use it.            *)
(*                                                                         *)
(* Time is in epoch milliseconds.  Request ids are the tokens 1..n (the    *)
(* code draws UUIDs, so an id is never used twice).  Webhook ids are       *)
(* sequences of characters so that the object store's key-prefix listing   *)
(* is computed on the keys themselves.  Results whose order no property    *)
(* here observes (config lists, webhookDistribution) are kept as sets or   *)
(* functions; request lists are sequences in the order the code returns.   *)
(***************************************************************************)
EXTENDS Integers, Sequences, FiniteSets, TLC

\* ---------------------------------------------------------------- bounds
\* config.maxRequestsPerWebhook (MAX_REQUESTS_PER_WEBHOOK), here 2
maxRequestsPerWebhook == 2

\* the clock advances at most MaxNow hours past StartTime
MaxNow == 1

\* ------------------------------------------------------------- constants
MsPerHour == 3600000

\* limit used by the poll handler and default of getRequests
DefaultLimit == 100

\* limit used by R2StorageProvider.getStats
StatsLimit == 1000

\* ids of the requests that can be captured: one more than the cap
RequestIds == 1..(maxRequestsPerWebhook + 1)

\* two valid webhook ids (6..12 alphanumerics), the first a proper prefix
\* of the second
W1 == <<"a", "b", "c", "d", "e", "f">>
W2 == <<"a", "b", "c", "d", "e", "f", "g">>
Webhooks == {W1, W2}

RetentionChoices == {1, 2}

\* config.createdAt, in epoch milliseconds
ConfigTimes == {1500}

\* config.lastRequestAt, in epoch milliseconds; 0 stands for undefined (null
\* in the last_request_at column)
LastRequestTimes == {0, 2500}

\* --------------------------------------------------------------- helpers
Min(a, b) == IF a < b THEN a ELSE b

Max(a, b) == IF a > b THEN a ELSE b

Range(s) == {s[i] : i \in DOMAIN s}

RECURSIVE SumOver(_, _)
SumOver(S, f) ==
  IF S = {} THEN 0
  ELSE LET x == CHOOSE y \in S : TRUE IN f[x] + SumOver(S \ {x}, f)

MapSet(m, k, v) == [x \in (DOMAIN m) \cup {k} |-> IF x = k THEN v ELSE m[x]]

MapDelete(m, k) == [x \in (DOMAIN m) \ {k} |-> m[x]]

EmptyMap == [x \in {} |-> 0]

\* Array.prototype.slice(a, b) for 0 <= a <= b
Slice(s, a, b) == SubSeq(s, a + 1, Min(b, Len(s)))

\* the outcome of a call: a returned value or a thrown error
Return(v) == [threw |-> FALSE, value |-> v, err |-> "none"]

Throw(e) == [threw |-> TRUE, value |-> "none", err |-> e]

\* an error: its class name, message, provider and the flags set in details
StorageError(message, prov) ==
  [name |-> "StorageError", message |-> message, provider |-> prov, details |-> {}]

PlainError(message) ==
  [name |-> "Error", message |-> message, provider |-> "none", details |-> {}]

\* a missing table binding reported as a bare Error
d1BindingNotFound_plain ==
  [name |-> "Error", message |-> "D1 database binding not found",
   provider |-> "none", details |-> {}]

d1BindingNotFound ==
  [name |-> "StorageError", message |-> "D1 database binding not found",
   provider |-> "d1", details |-> {"isBindingError"}]

d1InitializationFailed ==
  [name |-> "StorageError", message |-> "Failed to initialize D1 database",
   provider |-> "d1", details |-> {"isInitializationError"}]

\* message.includes('database binding') || message.includes('D1 database
\* binding not found') || message.includes('WEBHOOK_DB'): of the messages
\* above only that of d1BindingNotFound contains one of the three
MentionsBinding(message) == message = "D1 database binding not found"

isD1BindingError(err) ==
  /\ err.name = "StorageError"
  /\ err.provider = "d1"
  /\ (MentionsBinding(err.message) \/ "isBindingError" \in err.details)

\* ------------------------------------------------------ backend selection
\* WEBHOOK_DB is absent, a stub without a prepare method, or a database
DbBindings == {"absent", "stub", "db"}

Overrides == {"", "d1", "r2", "memory", "kv"}

Environments ==
  [WEBHOOK_DB : DbBindings, WEBHOOK_STORAGE : BOOLEAN,
   STORAGE_PROVIDER : Overrides, production : BOOLEAN]

\* a check of the binding's presence alone
isD1Available_anyBinding(e) == e.WEBHOOK_DB # "absent"

isD1Available(e) ==
  LET hasDatabase == e.WEBHOOK_DB # "absent"
  IN IF hasDatabase /\ e.WEBHOOK_DB = "stub" THEN FALSE ELSE hasDatabase

isR2Available(e) == e.WEBHOOK_STORAGE

\* a resolution that refuses the memory override in production
getPreferredStorageProvider_strictMemory(e) ==
  IF e.STORAGE_PROVIDER = "memory" /\ ~e.production THEN Return("memory")
  ELSE IF e.STORAGE_PROVIDER = "d1" /\ e.WEBHOOK_DB = "db" THEN Return("d1")
  ELSE IF e.STORAGE_PROVIDER = "r2" /\ e.WEBHOOK_STORAGE THEN Return("r2")
  ELSE Throw(PlainError("No storage provider configured for production"))

getPreferredStorageProvider(e) ==
  LET explicitProvider == e.STORAGE_PROVIDER
  IN IF explicitProvider = "d1"
       THEN IF ~isD1Available(e) THEN Throw(d1BindingNotFound) ELSE Return("d1")
     ELSE IF explicitProvider = "r2"
       THEN IF ~isR2Available(e)
              THEN Throw(PlainError("STORAGE_PROVIDER is r2 but WEBHOOK_STORAGE is not available"))
              ELSE Return("r2")
     ELSE IF explicitProvider = "memory" THEN Return("memory")
     ELSE IF explicitProvider = ""
       THEN IF isD1Available(e) THEN Return("d1")
            ELSE IF isR2Available(e) THEN Return("r2")
            ELSE IF e.production
              THEN Throw(PlainError("No storage provider configured for production"))
              ELSE Return("memory")
     ELSE Throw(PlainError("Unknown STORAGE_PROVIDER"))

\* ------------------------------------------------- MemoryStorageProvider
\* saveRequest pushing to the end of the list instead of the front
Memory_saveRequest_push(reqs, webhookId, request) ==
  LET cur == IF webhookId \in DOMAIN reqs THEN reqs[webhookId] ELSE <<>>
      pushed == cur \o <<request>>
      spliced == IF Len(pushed) > maxRequestsPerWebhook
                   THEN SubSeq(pushed, 1, maxRequestsPerWebhook)
                   ELSE pushed
  IN [requests |-> MapSet(reqs, webhookId, spliced), out |-> Return("void"), tries |-> 1,
      length |-> Len(pushed)]

\* a saveRequest working on the list as a call before it found it (empty),
\* as a call would that had read the list before that call's insert
Memory_saveRequest_stale(reqs, webhookId, request) ==
  [requests |-> MapSet(reqs, webhookId, <<request>>), out |-> Return("void"), tries |-> 1,
   length |-> 1]

\* the body has no await: it runs from has() to splice() without yielding;
\* length is requests.length as the test before splice() reads it
Memory_saveRequest(reqs, webhookId, request) ==
  LET cur == IF webhookId \in DOMAIN reqs THEN reqs[webhookId] ELSE <<>>
      unshifted == <<request>> \o cur
      spliced == IF Len(unshifted) > maxRequestsPerWebhook
                   THEN SubSeq(unshifted, 1, maxRequestsPerWebhook)
                   ELSE unshifted
  IN [requests |-> MapSet(reqs, webhookId, spliced), out |-> Return("void"), tries |-> 1,
      length |-> Len(unshifted)]

Memory_getRequests(reqs, webhookId, limit, offset) ==
  LET cur == IF webhookId \in DOMAIN reqs THEN reqs[webhookId] ELSE <<>>
  IN Return(Slice(cur, offset, offset + limit))

Memory_deleteRequest(reqs, webhookId, requestId) ==
  IF webhookId \notin DOMAIN reqs
    THEN [requests |-> reqs, out |-> Return(FALSE)]
    ELSE LET filteredRequests == SelectSeq(reqs[webhookId], LAMBDA r : r.id # requestId)
         IN IF Len(filteredRequests) # Len(reqs[webhookId])
              THEN [requests |-> MapSet(reqs, webhookId, filteredRequests), out |-> Return(TRUE)]
              ELSE [requests |-> reqs, out |-> Return(FALSE)]

Memory_clearRequests(reqs, webhookId) ==
  [requests |-> MapDelete(reqs, webhookId), out |-> Return("void")]

Memory_saveWebhookConfig(cfgs, config) ==
  [configs |-> MapSet(cfgs, config.id, config), out |-> Return("void"), tries |-> 1]

\* a WebhookConfig | null result is kept as a set of at most one config
Memory_getWebhookConfig(cfgs, webhookId) ==
  Return(IF webhookId \in DOMAIN cfgs THEN {cfgs[webhookId]} ELSE {})

Memory_getAllWebhookConfigs(cfgs) == Return(Range(cfgs))

Memory_deleteWebhookConfig(reqs, cfgs, webhookId) ==
  LET existed == webhookId \in DOMAIN cfgs
  IN [configs |-> MapDelete(cfgs, webhookId),
      requests |-> IF existed THEN MapDelete(reqs, webhookId) ELSE reqs,
      out |-> Return(existed)]

Memory_cleanupExpiredRequests(reqs, retentionHours, t) ==
  LET cutoffTime == t - retentionHours * MsPerHour
      filtered == [w \in DOMAIN reqs |-> SelectSeq(reqs[w], LAMBDA r : r.timestamp > cutoffTime)]
      deleted == [w \in DOMAIN reqs |-> Len(reqs[w]) - Len(filtered[w])]
  IN [requests |-> filtered, out |-> Return(SumOver(DOMAIN reqs, deleted))]

Memory_isHealthy == Return(TRUE)

Memory_getStats(reqs, cfgs) ==
  LET lens == [w \in DOMAIN reqs |-> Len(reqs[w])]
  IN Return([totalWebhooks |-> Cardinality(DOMAIN cfgs),
             totalRequests |-> SumOver(DOMAIN reqs, lens),
             webhooksWithRequests |-> Cardinality(DOMAIN reqs),
             webhookDistribution |-> lens])

\* ----------------------------------------------------- D1StorageProvider
\* the sequences that list the rows of S by timestamp descending; SQLite
\* leaves the order of rows with equal timestamps open
OrderByTimestampDesc(S) ==
  {s \in [1..Cardinality(S) -> S] :
     /\ Range(s) = S
     /\ \A i \in 1..(Len(s) - 1) : s[i].timestamp >= s[i + 1].timestamp}

rowToWebhookRequest(row) ==
  [id |-> row.id, webhookId |-> row.webhook_id, timestamp |-> row.timestamp]

rowToWebhookConfig(row) ==
  [id |-> row.id, requestCount |-> row.request_count, createdAt |-> row.created_at * 1000,
   lastRequestAt |-> IF row.last_request_at # 0 THEN row.last_request_at * 1000 ELSE 0]

D1_initialize(db, fail) ==
  IF fail
    THEN [database |-> db, initialized |-> FALSE, out |-> Throw(d1InitializationFailed)]
    ELSE [database |-> [db EXCEPT !.tables = TRUE], initialized |-> TRUE, out |-> Return("void")]

ensureInitialized(db, init, f) ==
  IF ~init THEN D1_initialize(db, f.init)
  ELSE [database |-> db, initialized |-> init, out |-> Return("void")]

\* INSERT INTO requests: fails on a missing table, a transient error or a
\* duplicate primary key
InsertRequest(db, webhookId, request) ==
  [db EXCEPT !.requests = @ \cup
     {[id |-> request.id, webhook_id |-> webhookId, timestamp |-> request.timestamp]}]

\* a save that re-initializes and retries after any failure of its INSERT
D1_saveRequest_retryAny(db, init, webhookId, request, f) ==
  LET e == ensureInitialized(db, init, f)
  IN IF e.out.threw
       THEN [database |-> e.database, initialized |-> e.initialized,
             out |-> Throw(StorageError("Failed to save request", "d1")), tries |-> 0]
     ELSE IF ~e.database.tables \/ f.q
       THEN LET i == D1_initialize(e.database, f.init)
            IN IF i.out.threw
                 THEN [database |-> i.database, initialized |-> i.initialized,
                       out |-> i.out, tries |-> 1]
               ELSE IF f.retry
                 THEN [database |-> i.database, initialized |-> i.initialized,
                       out |-> Throw(StorageError("Failed to save request after retry", "d1")),
                       tries |-> 2]
                 ELSE [database |-> InsertRequest(i.database, webhookId, request),
                       initialized |-> i.initialized, out |-> Return("void"), tries |-> 2]
     ELSE [database |-> InsertRequest(e.database, webhookId, request),
           initialized |-> e.initialized, out |-> Return("void"), tries |-> 1]

\* tries counts the INSERT statements run
D1_saveRequest(db, init, webhookId, request, f) ==
  LET e == ensureInitialized(db, init, f)
      failed(msg, n) == [database |-> e.database, initialized |-> e.initialized,
                         out |-> Throw(StorageError(msg, "d1")), tries |-> n]
  IN IF e.out.threw THEN failed("Failed to save request", 0)
     ELSE IF ~e.database.tables
       THEN \* "no such table": clear the flag, initialize again, retry once
            LET i == D1_initialize(e.database, f.init)
            IN IF i.out.threw
                 THEN [database |-> i.database, initialized |-> i.initialized,
                       out |-> i.out, tries |-> 1]
               ELSE IF f.retry
                 THEN [database |-> i.database, initialized |-> i.initialized,
                       out |-> Throw(StorageError("Failed to save request after retry", "d1")),
                       tries |-> 2]
                 ELSE [database |-> InsertRequest(i.database, webhookId, request),
                       initialized |-> i.initialized, out |-> Return("void"), tries |-> 2]
     ELSE IF f.q \/ \E row \in e.database.requests : row.id = request.id
       THEN failed("Failed to save request", 1)
     ELSE [database |-> InsertRequest(e.database, webhookId, request),
           initialized |-> e.initialized, out |-> Return("void"), tries |-> 1]

\* the set of outcomes getRequests can have (rows with equal timestamps)
D1_getRequests(db, init, webhookId, limit, offset, f) ==
  LET e == ensureInitialized(db, init, f)
      rows == {row \in e.database.requests : row.webhook_id = webhookId}
  IN [database |-> e.database, initialized |-> e.initialized,
      tries |-> IF e.out.threw THEN 0 ELSE 1,
      outs |-> IF e.out.threw \/ ~e.database.tables \/ f.q
                 THEN {Throw(StorageError("Failed to get requests", "d1"))}
                 ELSE {Return([i \in 1..Len(Slice(s, offset, offset + limit)) |->
                                 rowToWebhookRequest(Slice(s, offset, offset + limit)[i])]) :
                         s \in OrderByTimestampDesc(rows)}]

D1_deleteRequest(db, webhookId, requestId, f) ==
  IF ~db.tables \/ f.q
    THEN [database |-> db, out |-> Return(FALSE)]
    ELSE LET hit == {row \in db.requests : row.webhook_id = webhookId /\ row.id = requestId}
         IN [database |-> [db EXCEPT !.requests = @ \ hit],
             out |-> Return(Cardinality(hit) > 0)]

D1_clearRequests(db, webhookId, f) ==
  IF ~db.tables \/ f.q
    THEN [database |-> db, out |-> Throw(StorageError("Failed to clear requests", "d1"))]
    ELSE [database |-> [db EXCEPT !.requests = {row \in @ : row.webhook_id # webhookId}],
          out |-> Return("void")]

D1_saveWebhookConfig(db, init, config, f) ==
  LET e == ensureInitialized(db, init, f)
  IN IF e.out.threw \/ ~e.database.tables \/ f.q
       THEN [database |-> e.database, initialized |-> e.initialized,
             out |-> Throw(StorageError("Failed to save webhook config", "d1")),
             tries |-> IF e.out.threw THEN 0 ELSE 1]
       ELSE [database |->
               [e.database EXCEPT !.configs =
                  {row \in @ : row.id # config.id} \cup
                  {[id |-> config.id, request_count |-> config.requestCount,
                    created_at |-> config.createdAt,
                    last_request_at |-> config.lastRequestAt]}],
             initialized |-> e.initialized, out |-> Return("void"), tries |-> 1]

D1_getWebhookConfig(db, webhookId, f) ==
  IF ~db.tables \/ f.q THEN Return({})
  ELSE Return({rowToWebhookConfig(row) : row \in {x \in db.configs : x.id = webhookId}})

D1_getAllWebhookConfigs(db, f) ==
  IF ~db.tables \/ f.q
    THEN Throw(StorageError("Failed to get all webhook configs", "d1"))
    ELSE Return({rowToWebhookConfig(row) : row \in db.configs})

D1_deleteWebhookConfig(db, webhookId, f) ==
  IF ~db.tables \/ f.q
    THEN [database |-> db, out |-> Return(FALSE)]
    ELSE LET hit == {row \in db.configs : row.id = webhookId}
         IN [database |-> [db EXCEPT !.configs = @ \ hit],
             out |-> Return(Cardinality(hit) > 0)]

D1_cleanupExpiredRequests(db, retentionHours, t, f) ==
  LET cutoffTime == t - retentionHours * MsPerHour
      hit == {row \in db.requests : row.timestamp < cutoffTime}
  IN IF ~db.tables \/ f.q
       THEN [database |-> db, out |-> Return(0)]
       ELSE [database |-> [db EXCEPT !.requests = @ \ hit],
             out |-> Return(Cardinality(hit))]

\* SELECT 1 needs no table
D1_isHealthy(f) == IF f.q THEN Return(FALSE) ELSE Return(TRUE)

D1_getStats(db, init, f) ==
  LET e == ensureInitialized(db, init, f)
      cfgs == D1_getAllWebhookConfigs(e.database, f)
      allRequests == e.database.requests
      count(w) == Cardinality({row \in allRequests : row.webhook_id = w})
      ids == IF cfgs.threw THEN {} ELSE {c.id : c \in cfgs.value}
      webhookDistribution == [w \in ids |-> count(w)]
  IN [database |-> e.database, initialized |-> e.initialized,
      tries |-> IF e.out.threw THEN 0 ELSE 1,
      out |-> IF e.out.threw \/ cfgs.threw
                THEN Throw(StorageError("Failed to get D1 storage stats", "d1"))
                ELSE Return([totalWebhooks |-> Cardinality(cfgs.value),
                             totalRequests |-> Cardinality(allRequests),
                             webhooksWithRequests |->
                               Cardinality({w \in ids : webhookDistribution[w] > 0}),
                             webhookDistribution |-> webhookDistribution])]

\* ----------------------------------------------------- R2StorageProvider
\* An object key `${pathPrefix}/requests/${webhookId}/${requestId}.json` or
\* `${pathPrefix}/configs/${webhookId}.json` is kept as its three parts; the
\* prefix test and the listing order are those of the key strings.
Alphabet == <<"a", "b", "c", "d", "e", "f", "g">>

CharRank(c) == CHOOSE i \in DOMAIN Alphabet : Alphabet[i] = c

IsPrefix(a, b) == Len(a) <= Len(b) /\ SubSeq(b, 1, Len(a)) = a

\* order of `${a}/...` and `${b}/...` as strings: "/" sorts before every
\* alphanumeric character
RECURSIVE IdLess(_, _)
IdLess(a, b) ==
  IF a = <<>> THEN b # <<>>
  ELSE IF b = <<>> THEN FALSE
  ELSE IF Head(a) = Head(b) THEN IdLess(Tail(a), Tail(b))
  ELSE CharRank(Head(a)) < CharRank(Head(b))

getRequestPath(webhookId, requestId) ==
  [dir |-> "requests", webhookId |-> webhookId, requestId |-> requestId]

getWebhookConfigPath(webhookId) ==
  [dir |-> "configs", webhookId |-> webhookId, requestId |-> 0]

\* key starts with `${pathPrefix}/requests/${webhookId}` (no trailing slash)
UnderRequestPath(key, webhookId) ==
  key.dir = "requests" /\ IsPrefix(webhookId, key.webhookId)

KeyLess(k1, k2) ==
  IF k1.dir # k2.dir THEN k1.dir = "configs"
  ELSE IF k1.webhookId # k2.webhookId THEN IdLess(k1.webhookId, k2.webhookId)
  ELSE k1.requestId < k2.requestId

RECURSIVE SortByKey(_)
SortByKey(S) ==
  IF S = {} THEN <<>>
  ELSE LET m == CHOOSE x \in S : \A y \in S \ {x} : KeyLess(x.key, y.key)
       IN <<m>> \o SortByKey(S \ {m})

\* bucket.list({prefix, limit}): the first `limit` matching objects in key order
BucketList(objs, limit) == Slice(SortByKey(objs), 0, limit)

\* Array.prototype.sort by uploaded descending (stable)
RECURSIVE SortByUploadedDesc(_)
SortByUploadedDesc(s) ==
  IF s = <<>> THEN <<>>
  ELSE LET x == s[Len(s)]
           rest == SortByUploadedDesc(SubSeq(s, 1, Len(s) - 1))
           k == Cardinality({i \in DOMAIN rest : rest[i].uploaded >= x.uploaded})
       IN SubSeq(rest, 1, k) \o <<x>> \o SubSeq(rest, k + 1, Len(rest))

BucketPut(bkt, key, t, body) ==
  {o \in bkt : o.key # key} \cup {[key |-> key, uploaded |-> t, body |-> body]}

R2_saveRequest(bkt, webhookId, request, t, f) ==
  IF f.q
    THEN [bucket |-> bkt, out |-> Throw(StorageError("Failed to save request", "r2")),
          tries |-> 1]
    ELSE [bucket |-> BucketPut(bkt, getRequestPath(webhookId, request.id), t, request),
          out |-> Return("void"), tries |-> 1]

R2_getRequests(bkt, webhookId, limit, offset, f) ==
  LET objects == BucketList({o \in bkt : UnderRequestPath(o.key, webhookId)}, limit + offset)
      sortedObjects == Slice(SortByUploadedDesc(objects), offset, offset + limit)
      fetched == SelectSeq(sortedObjects, LAMBDA o : o.key.requestId \notin f.bad)
  IN IF f.q THEN Throw(StorageError("Failed to get requests", "r2"))
     ELSE Return([i \in 1..Len(fetched) |-> fetched[i].body])

R2_deleteRequest(bkt, webhookId, requestId, f) ==
  IF f.q
    THEN [bucket |-> bkt, out |-> Return(FALSE)]
    ELSE [bucket |-> {o \in bkt : o.key # getRequestPath(webhookId, requestId)},
          out |-> Return(TRUE)]

R2_clearRequests(bkt, webhookId, f) ==
  IF f.q
    THEN [bucket |-> bkt, out |-> Throw(StorageError("Failed to clear requests", "r2"))]
    ELSE [bucket |-> {o \in bkt : ~(UnderRequestPath(o.key, webhookId)
                                    /\ o.key.requestId \notin f.bad)},
          out |-> Return("void")]

R2_saveWebhookConfig(bkt, config, t, f) ==
  IF f.q
    THEN [bucket |-> bkt, out |-> Throw(StorageError("Failed to save webhook config", "r2")),
          tries |-> 1]
    ELSE [bucket |-> BucketPut(bkt, getWebhookConfigPath(config.id), t, config),
          out |-> Return("void"), tries |-> 1]

R2_getWebhookConfig(bkt, webhookId, f) ==
  IF f.q THEN Return({})
  ELSE Return({o.body : o \in {x \in bkt : x.key = getWebhookConfigPath(webhookId)}})

R2_getAllWebhookConfigs(bkt, f) ==
  IF f.q THEN Throw(StorageError("Failed to get all webhook configs", "r2"))
  ELSE Return({o.body : o \in {x \in bkt : x.key.dir = "configs"
                                          /\ x.key.webhookId \notin f.badConfigs}})

R2_deleteWebhookConfig(bkt, webhookId, f) ==
  IF f.q
    THEN [bucket |-> bkt, out |-> Return(FALSE)]
    ELSE [bucket |-> {o \in bkt : o.key # getWebhookConfigPath(webhookId)},
          out |-> Return(TRUE)]

\* a cleanup that reports the deletes it issued, not those that succeeded
R2_cleanupExpiredRequests_issued(bkt, retentionHours, t, f) ==
  LET cutoffTime == t - retentionHours * MsPerHour
      expiredObjects == {o \in bkt : o.key.dir = "requests" /\ o.uploaded < cutoffTime}
      fulfilled == {o \in expiredObjects : o.key.requestId \notin f.bad}
  IN IF f.q
       THEN [bucket |-> bkt, out |-> Return(0)]
       ELSE [bucket |-> bkt \ fulfilled, out |-> Return(Cardinality(expiredObjects))]

R2_cleanupExpiredRequests(bkt, retentionHours, t, f) ==
  LET cutoffTime == t - retentionHours * MsPerHour
      expiredObjects == {o \in bkt : o.key.dir = "requests" /\ o.uploaded < cutoffTime}
      fulfilled == {o \in expiredObjects : o.key.requestId \notin f.bad}
  IN IF f.q
       THEN [bucket |-> bkt, out |-> Return(0)]
       ELSE [bucket |-> bkt \ fulfilled, out |-> Return(Cardinality(fulfilled))]

R2_isHealthy(f) == IF f.q THEN Return(FALSE) ELSE Return(TRUE)

R2_getStats(bkt, f) ==
  LET cfgs == R2_getAllWebhookConfigs(bkt, f)
      ids == IF cfgs.threw THEN {} ELSE {c.id : c \in cfgs.value}
      webhookDistribution ==
        [w \in ids |-> Len(R2_getRequests(bkt, w, StatsLimit, 0, f).value)]
  IN IF cfgs.threw
       THEN Throw(StorageError("Failed to get R2 storage stats", "r2"))
       ELSE Return([totalWebhooks |-> Cardinality(cfgs.value),
                    totalRequests |-> SumOver(ids, webhookDistribution),
                    webhooksWithRequests |->
                      Cardinality({w \in ids : webhookDistribution[w] > 0}),
                    webhookDistribution |-> webhookDistribution])

\* ------------------------------------------------ getStats distributions
\* The three providers build the size and time distributions with the same
\* tables and tests over allRequests; Infinity is kept as -1.
sizeRanges ==
  << [range |-> "0-1KB", min |-> 0, max |-> 1024],
     [range |-> "1KB-10KB", min |-> 1024, max |-> 10240],
     [range |-> "10KB-100KB", min |-> 10240, max |-> 102400],
     [range |-> "100KB-1MB", min |-> 102400, max |-> 1048576],
     [range |-> "1MB+", min |-> 1048576, max |-> -1] >>

\* a test that includes the upper bound of a range
InSizeRange_closed(bodySize, range) ==
  bodySize >= range.min /\ (range.max = -1 \/ bodySize <= range.max)

\* req.bodySize >= range.min && req.bodySize < range.max
InSizeRange(bodySize, range) ==
  bodySize >= range.min /\ (range.max = -1 \/ bodySize < range.max)

\* allSizes: the bodySize of each entry of allRequests
requestSizeDistribution(allSizes) ==
  [i \in DOMAIN sizeRanges |->
     [sizeRange |-> sizeRanges[i].range,
      count |-> Cardinality({k \in DOMAIN allSizes : InSizeRange(allSizes[k], sizeRanges[i])})]]

timeRanges ==
  << [period |-> "Last Hour", hours |-> 1],
     [period |-> "Last 6 Hours", hours |-> 6],
     [period |-> "Last 24 Hours", hours |-> 24],
     [period |-> "Older", hours |-> -1] >>

\* the filter of one time range; t is the instant taken by getStats
InTimeRange(reqTime, range, t) ==
  LET cutoff == IF range.hours = -1 THEN 0 ELSE t - range.hours * MsPerHour
      nextCutoff == IF range.hours = 1 THEN t
                    ELSE IF range.hours = -1 THEN t - 24 * MsPerHour
                    ELSE t - (IF range.hours = 6 THEN 1 ELSE 6) * MsPerHour
  IN IF range.hours = -1 THEN reqTime < nextCutoff
     ELSE reqTime >= cutoff /\ reqTime < nextCutoff

\* allTimes: the timestamp of each entry of allRequests
timeDistribution(allTimes, t) ==
  [i \in DOMAIN timeRanges |->
     [period |-> timeRanges[i].period,
      count |-> Cardinality({k \in DOMAIN allTimes : InTimeRange(allTimes[k], timeRanges[i], t)})]]

\* -------------------------------------------------------- StorageManager
\* a provider's state: the memory maps, the D1 database with the provider's
\* initialized flag, the R2 bucket
NoFault == [q |-> FALSE, init |-> FALSE, retry |-> FALSE, bad |-> {}, badConfigs |-> {}]

\* what can go wrong in the storage calls of one operation: the operation's
\* own query / list / put / delete (q), D1 initialization (init), the D1
\* retry (retry), R2 calls on single request or config objects
\* kinds lists what the operation is exposed to: "init" and "retry" on D1,
\* "bad" and "badConfigs" on R2
FaultsOf(p, kinds) ==
  IF p = "d1"
    THEN [q : BOOLEAN,
          init : IF "init" \in kinds THEN BOOLEAN ELSE {FALSE},
          retry : IF "retry" \in kinds THEN BOOLEAN ELSE {FALSE},
          bad : {{}}, badConfigs : {{}}]
  ELSE IF p = "r2"
    THEN [q : BOOLEAN, init : {FALSE}, retry : {FALSE},
          bad : IF "bad" \in kinds THEN {{}} \cup {{i} : i \in RequestIds} ELSE {{}},
          badConfigs : IF "badConfigs" \in kinds THEN {{}} \cup {{w} : w \in Webhooks}
                       ELSE {{}}]
  ELSE {NoFault}

EmptyDatabase == [tables |-> FALSE, requests |-> {}, configs |-> {}]

\* StorageManager.createProvider: the provider type or the error thrown
createProvider(p, e, initFails) ==
  IF p = "r2"
    THEN IF ~e.WEBHOOK_STORAGE
           THEN Throw(StorageError("R2 bucket binding not found", "r2"))
           ELSE Return("r2")
  ELSE IF p = "d1"
    THEN IF e.WEBHOOK_DB = "absent" THEN Throw(d1BindingNotFound)
         ELSE IF e.WEBHOOK_DB = "stub" \/ initFails THEN Throw(d1InitializationFailed)
         ELSE Return("d1")
  ELSE IF p = "memory" THEN Return("memory")
  ELSE Throw(StorageError("Unknown storage provider", "unknown"))

createStorageManager(e, initFails) ==
  LET preferred == getPreferredStorageProvider(e)
  IN IF preferred.threw THEN preferred
     ELSE createProvider(preferred.value, e, initFails)

\* a wrapper that answers null instead of throwing
Delegate_swallow(out) == IF out.threw THEN Return({}) ELSE out

\* try { return await this.provider.op(...) } catch (error) { log; throw error }
Delegate(out) == IF out.threw THEN Throw(out.err) ELSE out

\* StorageManager.isHealthy answers false when the provider throws
StorageManager_isHealthy(out) == IF out.threw THEN Return(FALSE) ELSE out

\* this.provider.op(...): dispatch on the provider the manager was built with
Provider_saveRequest(p, ps, webhookId, request, t, f) ==
  IF p = "d1"
    THEN LET r == D1_saveRequest(ps.database, ps.initialized, webhookId, request, f)
         IN [ps |-> [ps EXCEPT !.database = r.database, !.initialized = r.initialized],
             out |-> r.out, tries |-> r.tries]
  ELSE IF p = "r2"
    THEN LET r == R2_saveRequest(ps.bucket, webhookId, request, t, f)
         IN [ps |-> [ps EXCEPT !.bucket = r.bucket], out |-> r.out, tries |-> r.tries]
  ELSE LET r == Memory_saveRequest(ps.requests, webhookId, request)
       IN [ps |-> [ps EXCEPT !.requests = r.requests], out |-> r.out, tries |-> r.tries,
           length |-> r.length]

\* the set of results getRequests can have; R2 lists once, memory reads its map
Provider_getRequests(p, ps, webhookId, limit, offset, f) ==
  IF p = "d1"
    THEN LET r == D1_getRequests(ps.database, ps.initialized, webhookId, limit, offset, f)
         IN {[ps |-> [ps EXCEPT !.database = r.database, !.initialized = r.initialized],
              out |-> o, tries |-> r.tries] : o \in r.outs}
  ELSE IF p = "r2"
    THEN {[ps |-> ps, out |-> R2_getRequests(ps.bucket, webhookId, limit, offset, f),
           tries |-> 1]}
  ELSE {[ps |-> ps, out |-> Memory_getRequests(ps.requests, webhookId, limit, offset),
         tries |-> 1]}

Provider_deleteRequest(p, ps, webhookId, requestId, f) ==
  IF p = "d1"
    THEN LET r == D1_deleteRequest(ps.database, webhookId, requestId, f)
         IN [ps |-> [ps EXCEPT !.database = r.database], out |-> r.out]
  ELSE IF p = "r2"
    THEN LET r == R2_deleteRequest(ps.bucket, webhookId, requestId, f)
         IN [ps |-> [ps EXCEPT !.bucket = r.bucket], out |-> r.out]
  ELSE LET r == Memory_deleteRequest(ps.requests, webhookId, requestId)
       IN [ps |-> [ps EXCEPT !.requests = r.requests], out |-> r.out]

Provider_clearRequests(p, ps, webhookId, f) ==
  IF p = "d1"
    THEN LET r == D1_clearRequests(ps.database, webhookId, f)
         IN [ps |-> [ps EXCEPT !.database = r.database], out |-> r.out]
  ELSE IF p = "r2"
    THEN LET r == R2_clearRequests(ps.bucket, webhookId, f)
         IN [ps |-> [ps EXCEPT !.bucket = r.bucket], out |-> r.out]
  ELSE LET r == Memory_clearRequests(ps.requests, webhookId)
       IN [ps |-> [ps EXCEPT !.requests = r.requests], out |-> r.out]

Provider_saveWebhookConfig(p, ps, config, t, f) ==
  IF p = "d1"
    THEN LET r == D1_saveWebhookConfig(ps.database, ps.initialized, config, f)
         IN [ps |-> [ps EXCEPT !.database = r.database, !.initialized = r.initialized],
             out |-> r.out, tries |-> r.tries]
  ELSE IF p = "r2"
    THEN LET r == R2_saveWebhookConfig(ps.bucket, config, t, f)
         IN [ps |-> [ps EXCEPT !.bucket = r.bucket], out |-> r.out, tries |-> r.tries]
  ELSE LET r == Memory_saveWebhookConfig(ps.configs, config)
       IN [ps |-> [ps EXCEPT !.configs = r.configs], out |-> r.out, tries |-> r.tries]

Provider_getWebhookConfig(p, ps, webhookId, f) ==
  IF p = "d1" THEN D1_getWebhookConfig(ps.database, webhookId, f)
  ELSE IF p = "r2" THEN R2_getWebhookConfig(ps.bucket, webhookId, f)
  ELSE Memory_getWebhookConfig(ps.configs, webhookId)

Provider_getAllWebhookConfigs(p, ps, f) ==
  IF p = "d1" THEN D1_getAllWebhookConfigs(ps.database, f)
  ELSE IF p = "r2" THEN R2_getAllWebhookConfigs(ps.bucket, f)
  ELSE Memory_getAllWebhookConfigs(ps.configs)

Provider_deleteWebhookConfig(p, ps, webhookId, f) ==
  IF p = "d1"
    THEN LET r == D1_deleteWebhookConfig(ps.database, webhookId, f)
         IN [ps |-> [ps EXCEPT !.database = r.database], out |-> r.out]
  ELSE IF p = "r2"
    THEN LET r == R2_deleteWebhookConfig(ps.bucket, webhookId, f)
         IN [ps |-> [ps EXCEPT !.bucket = r.bucket], out |-> r.out]
  ELSE LET r == Memory_deleteWebhookConfig(ps.requests, ps.configs, webhookId)
       IN [ps |-> [ps EXCEPT !.requests = r.requests, !.configs = r.configs], out |-> r.out]

Provider_cleanupExpiredRequests(p, ps, retentionHours, t, f) ==
  IF p = "d1"
    THEN LET r == D1_cleanupExpiredRequests(ps.database, retentionHours, t, f)
         IN [ps |-> [ps EXCEPT !.database = r.database], out |-> r.out]
  ELSE IF p = "r2"
    THEN LET r == R2_cleanupExpiredRequests(ps.bucket, retentionHours, t, f)
         IN [ps |-> [ps EXCEPT !.bucket = r.bucket], out |-> r.out]
  ELSE LET r == Memory_cleanupExpiredRequests(ps.requests, retentionHours, t)
       IN [ps |-> [ps EXCEPT !.requests = r.requests], out |-> r.out]

Provider_isHealthy(p, f) ==
  IF p = "d1" THEN D1_isHealthy(f)
  ELSE IF p = "r2" THEN R2_isHealthy(f)
  ELSE Memory_isHealthy

\* R2 lists the configs once, memory reads its maps
Provider_getStats(p, ps, f) ==
  IF p = "d1"
    THEN LET r == D1_getStats(ps.database, ps.initialized, f)
         IN [ps |-> [ps EXCEPT !.database = r.database, !.initialized = r.initialized],
             out |-> r.out, tries |-> r.tries]
  ELSE IF p = "r2" THEN [ps |-> ps, out |-> R2_getStats(ps.bucket, f), tries |-> 1]
  ELSE [ps |-> ps, out |-> Memory_getStats(ps.requests, ps.configs), tries |-> 1]

\* getProviderInfo().type: each provider class reports its own constant
getProviderInfo(p) == [type |-> p]

\* ------------------------------------------------------------------ state
VARIABLES
  env,           \* the environment snapshot: bindings, override, production flag
  provider,      \* type of the provider of the manager under test, or "none"
  now,           \* Date.now()
  usedIds,       \* request ids generated so far (numbered in the order of generation)
  requests,      \* MemoryStorageProvider.requests of the manager under test
  configs,       \* MemoryStorageProvider.configs of the manager under test
  database,      \* the D1 database behind WEBHOOK_DB
  initialized,   \* D1StorageProvider.initialized of the manager under test
  bucket,        \* the R2 bucket behind WEBHOOK_STORAGE
  lastPollTime,  \* the poll handler's rate-limit map
  saved,         \* history: requests saved per webhook on the memory provider, newest first
  sequential,    \* history: webhooks of the memory provider that saw nothing but saves
  captured,      \* history: latest request the ingress handler accepted per webhook (memory)
  last,          \* the operation just performed, its outcome and what it found
  hook           \* the refs and state of one mounted usePolling hook

vars == <<env, provider, now, usedIds, requests, configs, database, initialized,
          bucket, lastPollTime, saved, sequential, captured, last, hook>>

\* usePolling after mount with enabled = true: the main effect has set
\* isPollingActiveRef and called pollFunction, whose fetch is in flight.
\* timers: the kinds of pending setTimeout callbacks, "poll" (calls
\* pollFunction) and "restart" (set by refreshNow); timeoutRef: the kind of
\* the timer timeoutRef.current refers to; polling / loading: the automatic
\* / manual fetch is in flight
HookInit ==
  [isPollingActiveRef |-> TRUE, isPaused |-> FALSE, timeoutRef |-> "none", timers |-> {},
   polling |-> TRUE, loading |-> FALSE, isConnected |-> FALSE, refreshes |-> 0,
   event |-> "poll"]

StartTime == MsPerHour

MIN_POLL_INTERVAL == 1000

\* an id the handlers reject: fewer than 6 characters
BadId == <<"a", "b">>

isValidWebhookId(id) == Len(id) >= 6 /\ Len(id) <= 12

PS ==
  [requests |-> requests, configs |-> configs, database |-> database,
   initialized |-> initialized, bucket |-> bucket]

SetPS(ps) ==
  /\ requests' = ps.requests
  /\ configs' = ps.configs
  /\ database' = ps.database
  /\ initialized' = ps.initialized
  /\ bucket' = ps.bucket

\* the requests a provider of type p holds in state ps
StoredRequests(p, ps) ==
  IF p = "d1" THEN {rowToWebhookRequest(row) : row \in ps.database.requests}
  ELSE IF p = "r2" THEN {o.body : o \in {x \in ps.bucket : x.key.dir = "requests"}}
  ELSE IF p = "memory" THEN UNION {Range(ps.requests[w]) : w \in DOMAIN ps.requests}
  ELSE {}

StoredFor(p, ps, webhookId) == {r \in StoredRequests(p, ps) : r.webhookId = webhookId}

\* the webhook ids that have a config
ConfigIds(p, ps) ==
  IF p = "d1" THEN {row.id : row \in ps.database.configs}
  ELSE IF p = "r2" THEN {o.key.webhookId : o \in {x \in ps.bucket : x.key.dir = "configs"}}
  ELSE IF p = "memory" THEN DOMAIN ps.configs
  ELSE {}

\* tries: how many times the operation issued its own storage statement;
\* fault: a storage call of the operation failed
Step(op, tries, fault, webhookId, requestId, arg, backendOut, out, pre) ==
  [op |-> op, tries |-> tries, fault |-> fault, webhookId |-> webhookId, requestId |-> requestId,
   arg |-> arg, backendOut |-> backendOut, out |-> out, pre |-> pre]

\* one environment per outcome of the selection: D1, R2, memory, none
StorageEnvironments ==
  {e \in Environments :
     /\ e.STORAGE_PROVIDER = ""
     /\ e.WEBHOOK_DB # "stub"
     /\ ~(e.WEBHOOK_DB = "db" /\ e.WEBHOOK_STORAGE)
     /\ (e.WEBHOOK_DB = "db" \/ e.WEBHOOK_STORAGE) => e.production}

Init ==
  /\ env \in StorageEnvironments
  /\ hook = HookInit
  /\ \E initFails \in BOOLEAN :
       LET m == createStorageManager(env, initFails)
       IN /\ provider = IF m.threw THEN "none" ELSE m.value
          /\ database = IF provider = "d1"
                          THEN [EmptyDatabase EXCEPT !.tables = TRUE]
                          ELSE EmptyDatabase
          /\ initialized = (provider = "d1")
  /\ now = StartTime
  /\ usedIds = {}
  /\ requests = EmptyMap
  /\ configs = EmptyMap
  /\ bucket = {}
  /\ lastPollTime = EmptyMap
  /\ saved = [w \in Webhooks |-> <<>>]
  /\ sequential = Webhooks
  /\ captured = [w \in Webhooks |-> {}]
  /\ last = Step("init", 0, FALSE, <<>>, 0, 0, Return("void"), Return("void"), "none")

\* a removal touched these webhooks of the provider under test
Disturb(ws) ==
  /\ sequential' = IF provider = "memory" THEN sequential \ ws ELSE sequential
  /\ UNCHANGED <<saved, captured>>

\* generateId(): an id that was never used; ids are numbered as they are drawn
generateId == Cardinality(usedIds) + 1

\* ---------------------------------------------- StorageManager operations
\* a manager that moves to the memory provider when a save fails
saveRequest_fallback(webhookId, requestId, timestamp, f) ==
  /\ provider # "none"
  /\ requestId \in RequestIds
  /\ requestId = generateId
  /\ LET request == [id |-> requestId, webhookId |-> webhookId, timestamp |-> timestamp]
         r == Provider_saveRequest(provider, PS, webhookId, request, now, f)
     IN /\ SetPS(r.ps)
        /\ provider' = IF r.out.threw THEN "memory" ELSE provider
        /\ saved' = saved
        /\ last' = Step("saveRequest", r.tries, f # NoFault, webhookId, requestId, timestamp, r.out, Delegate(r.out), "none")
  /\ usedIds' = usedIds \cup {requestId}
  /\ UNCHANGED <<hook, env, now, lastPollTime, sequential, captured>>

saveRequest(webhookId, requestId, timestamp, f) ==
  /\ provider # "none"
  /\ requestId \in RequestIds
  /\ requestId = generateId
  /\ LET request == [id |-> requestId, webhookId |-> webhookId, timestamp |-> timestamp]
         r == Provider_saveRequest(provider, PS, webhookId, request, now, f)
     IN /\ SetPS(r.ps)
        /\ saved' = IF provider = "memory"
                      THEN [saved EXCEPT ![webhookId] = <<request>> \o @]
                      ELSE saved
        /\ last' = Step("saveRequest", r.tries, f # NoFault, webhookId, requestId, timestamp, r.out, Delegate(r.out),
                        IF provider = "memory" THEN r.length ELSE "none")
  /\ usedIds' = usedIds \cup {requestId}
  /\ UNCHANGED <<hook, env, provider, now, lastPollTime, sequential, captured>>

getRequests(webhookId, limit, offset, f) ==
  /\ provider # "none"
  /\ \E r \in Provider_getRequests(provider, PS, webhookId, limit, offset, f) :
       /\ SetPS(r.ps)
       /\ last' = Step("getRequests", r.tries, f # NoFault, webhookId, 0, <<limit, offset>>, r.out, Delegate(r.out), "none")
  /\ UNCHANGED <<hook, env, provider, now, usedIds, lastPollTime, saved, sequential, captured>>

deleteRequest(webhookId, requestId, f) ==
  /\ provider # "none"
  /\ LET r == Provider_deleteRequest(provider, PS, webhookId, requestId, f)
         stored == \E x \in StoredFor(provider, PS, webhookId) : x.id = requestId
     IN /\ SetPS(r.ps)
        /\ last' = Step("deleteRequest", 1, f # NoFault, webhookId, requestId, 0, r.out, Delegate(r.out), stored)
  /\ Disturb({webhookId})
  /\ UNCHANGED <<hook, env, provider, now, usedIds, lastPollTime>>

clearRequests(webhookId, f) ==
  /\ provider # "none"
  /\ LET r == Provider_clearRequests(provider, PS, webhookId, f)
     IN /\ SetPS(r.ps)
        /\ last' = Step("clearRequests", 1, f # NoFault, webhookId, 0, f, r.out, Delegate(r.out), "none")
  /\ Disturb({webhookId})
  /\ UNCHANGED <<hook, env, provider, now, usedIds, lastPollTime>>

saveWebhookConfig(webhookId, createdAt, lastRequestAt, f) ==
  /\ provider # "none"
  /\ LET config == [id |-> webhookId, requestCount |-> 0, createdAt |-> createdAt,
                    lastRequestAt |-> lastRequestAt]
         r == Provider_saveWebhookConfig(provider, PS, config, now, f)
     IN /\ SetPS(r.ps)
        /\ last' = Step("saveWebhookConfig", r.tries, f # NoFault, webhookId, 0, config, r.out, Delegate(r.out), "none")
  /\ UNCHANGED <<hook, env, provider, now, usedIds, lastPollTime, saved, sequential, captured>>

getWebhookConfig(webhookId, f) ==
  /\ provider # "none"
  /\ LET out == Provider_getWebhookConfig(provider, PS, webhookId, f)
         existed == webhookId \in ConfigIds(provider, PS)
     IN last' = Step("getWebhookConfig", 1, f # NoFault, webhookId, 0, 0, out, Delegate(out), existed)
  /\ UNCHANGED <<hook, env, provider, now, usedIds, requests, configs, database, initialized,
                 bucket, lastPollTime, saved, sequential, captured>>

getAllWebhookConfigs(f) ==
  /\ provider # "none"
  /\ LET out == Provider_getAllWebhookConfigs(provider, PS, f)
     IN last' = Step("getAllWebhookConfigs", 1, f # NoFault, <<>>, 0, 0, out, Delegate(out), "none")
  /\ UNCHANGED <<hook, env, provider, now, usedIds, requests, configs, database, initialized,
                 bucket, lastPollTime, saved, sequential, captured>>

deleteWebhookConfig(webhookId, f) ==
  /\ provider # "none"
  /\ LET r == Provider_deleteWebhookConfig(provider, PS, webhookId, f)
         existed == webhookId \in ConfigIds(provider, PS)
     IN /\ SetPS(r.ps)
        /\ last' = Step("deleteWebhookConfig", 1, f # NoFault, webhookId, 0, 0, r.out, Delegate(r.out), existed)
  /\ Disturb({webhookId})
  /\ UNCHANGED <<hook, env, provider, now, usedIds, lastPollTime>>

cleanupExpiredRequests(retentionHours, f) ==
  /\ provider # "none"
  /\ LET r == Provider_cleanupExpiredRequests(provider, PS, retentionHours, now, f)
         pre == [stored |-> StoredRequests(provider, PS),
                 cutoff |-> now - retentionHours * MsPerHour, f |-> f]
     IN /\ SetPS(r.ps)
        /\ last' = Step("cleanupExpiredRequests", 1, f # NoFault, <<>>, 0, retentionHours, r.out, Delegate(r.out), pre)
  /\ Disturb(Webhooks)
  /\ UNCHANGED <<hook, env, provider, now, usedIds, lastPollTime>>

isHealthy(f) ==
  /\ provider # "none"
  /\ LET out == Provider_isHealthy(provider, f)
     IN last' = Step("isHealthy", 1, f # NoFault, <<>>, 0, 0, out, StorageManager_isHealthy(out), "none")
  /\ UNCHANGED <<hook, env, provider, now, usedIds, requests, configs, database, initialized,
                 bucket, lastPollTime, saved, sequential, captured>>

getStats(f) ==
  /\ provider # "none"
  /\ LET r == Provider_getStats(provider, PS, f)
     IN /\ SetPS(r.ps)
        /\ last' = Step("getStats", r.tries, f # NoFault, <<>>, 0, 0, r.out, Delegate(r.out), "none")
  /\ UNCHANGED <<hook, env, provider, now, usedIds, lastPollTime, saved, sequential, captured>>

\* ------------------------------------------------------------ HTTP handlers
\* getStorageManager() builds a new manager, hence a new provider, per call:
\* new (empty) memory maps, or a new D1 provider initialized on the shared
\* database, or a new R2 provider on the shared bucket
FreshPS(p) ==
  [requests |-> EmptyMap, configs |-> EmptyMap,
   database |-> IF p = "d1" THEN [database EXCEPT !.tables = TRUE] ELSE database,
   initialized |-> (p = "d1"), bucket |-> bucket]

HandlerFaults(kinds) ==
  LET preferred == getPreferredStorageProvider(env)
  IN IF preferred.threw THEN {NoFault} ELSE FaultsOf(preferred.value, kinds \cup {"init"})

\* Array.prototype.sort by timestamp descending (stable)
RECURSIVE SortByTimestampDesc(_)
SortByTimestampDesc(s) ==
  IF s = <<>> THEN <<>>
  ELSE LET x == s[Len(s)]
           rest == SortByTimestampDesc(SubSeq(s, 1, Len(s) - 1))
           k == Cardinality({i \in DOMAIN rest : rest[i].timestamp >= x.timestamp})
       IN SubSeq(rest, 1, k) \o <<x>> \o SubSeq(rest, k + 1, Len(rest))

Response(status, success, body) == Return([status |-> status, success |-> success, requests |-> body])

\* an ingress handler that answers before it has saved anything
handleRequest_optimistic(webhookId, requestId, f) ==
  /\ requestId \in RequestIds
  /\ requestId = generateId
  /\ usedIds' = usedIds \cup {requestId}
  /\ last' = Step("handleRequest", 0, f # NoFault, webhookId, requestId, 0,
                  Throw(PlainError("not saved")), Response(200, TRUE, <<>>), "none")
  /\ UNCHANGED <<hook, env, provider, now, requests, configs, database, initialized, bucket,
                 lastPollTime, saved, sequential, captured>>

\* the ingress handler of /api/webhook/[id]
handleRequest(webhookId, requestId, f) ==
  /\ requestId \in RequestIds
  /\ requestId = generateId
  /\ IF ~isValidWebhookId(webhookId)
       THEN /\ last' = Step("handleRequest", 0, FALSE, webhookId, 0, 0, Return("void"),
                            Response(400, FALSE, <<>>), "none")
            /\ UNCHANGED <<usedIds, database, bucket, captured>>
       ELSE LET webhookRequest == [id |-> requestId, webhookId |-> webhookId, timestamp |-> now]
                m == createStorageManager(env, f.init)
                r == IF m.threw THEN [ps |-> PS, out |-> m, tries |-> 0]
                     ELSE Provider_saveRequest(m.value, FreshPS(m.value), webhookId,
                                               webhookRequest, now, f)
                out == Delegate(r.out)
                status == IF ~out.threw THEN 200
                          ELSE IF out.err.provider = "d1" THEN 503 ELSE 500
            IN /\ usedIds' = usedIds \cup {requestId}
               /\ database' = r.ps.database
               /\ bucket' = r.ps.bucket
               /\ captured' = IF status = 200 /\ m.value = "memory"
                                THEN [captured EXCEPT ![webhookId] = {webhookRequest}]
                                ELSE captured
               /\ last' = Step("handleRequest", r.tries, f # NoFault, webhookId, requestId, 0, r.out,
                               Response(status, status = 200, <<>>), "none")
  /\ UNCHANGED <<hook, env, provider, now, requests, configs, initialized, lastPollTime,
                 saved, sequential>>

\* the poll handler of /api/poll/[id]
GET(webhookId, f) ==
  IF ~isValidWebhookId(webhookId)
    THEN /\ last' = Step("GET", 0, FALSE, webhookId, 0, 0, Return("void"), Response(400, FALSE, <<>>), "none")
         /\ UNCHANGED <<hook, env, provider, now, usedIds, requests, configs, database, initialized,
                        bucket, lastPollTime, saved, sequential, captured>>
    ELSE LET lastPoll == IF webhookId \in DOMAIN lastPollTime THEN lastPollTime[webhookId] ELSE 0
             rateLimited == now - lastPoll < MIN_POLL_INTERVAL
             m == createStorageManager(env, f.init)
         IN /\ \E r \in (IF m.threw THEN {[ps |-> PS, out |-> m, tries |-> 0]}
                         ELSE Provider_getRequests(m.value, FreshPS(m.value), webhookId,
                                                   DefaultLimit, 0, f)) :
                 LET out == Delegate(r.out)
                     fetched == IF out.threw THEN <<>> ELSE out.value
                     body == IF rateLimited THEN fetched
                             ELSE Slice(SortByTimestampDesc(fetched), 0, DefaultLimit)
                 IN /\ database' = r.ps.database
                    /\ last' = Step("GET", r.tries, f # NoFault, webhookId, 0, rateLimited, r.out,
                                    IF out.threw /\ out.err.provider = "d1"
                                      THEN Response(200, FALSE, <<>>)
                                      ELSE Response(200, TRUE, body),
                                    "none")
            /\ lastPollTime' = IF rateLimited THEN lastPollTime
                               ELSE MapSet(lastPollTime, webhookId, now)
            /\ UNCHANGED <<hook, env, provider, now, usedIds, requests, configs, initialized,
                           bucket, saved, sequential, captured>>

\* ------------------------------------------------------------ environment
Tick ==
  /\ now < StartTime + MaxNow * MsPerHour
  /\ now' = now + MsPerHour
  /\ last' = Step("Tick", 0, FALSE, <<>>, 0, 0, Return("void"), Return("void"), "none")
  /\ UNCHANGED <<hook, env, provider, usedIds, requests, configs, database, initialized,
                 bucket, lastPollTime, saved, sequential, captured>>

\* the tables of the database go away (storage provisioned again, not migrated)
DropTables ==
  /\ database.tables
  /\ database' = EmptyDatabase
  /\ last' = Step("DropTables", 0, FALSE, <<>>, 0, 0, Return("void"), Return("void"), "none")
  /\ UNCHANGED <<hook, env, provider, now, usedIds, requests, configs, initialized,
                 bucket, lastPollTime, saved, sequential, captured>>

Limits == {DefaultLimit}

Offsets == {0}

\* the operations of the StorageManager facade
Operations ==
  \/ \E w \in Webhooks, f \in FaultsOf(provider, {"init", "retry"}) :
       saveRequest(w, generateId, now, f)
  \/ \E w \in Webhooks, limit \in Limits, offset \in Offsets,
        f \in FaultsOf(provider, {"init", "bad"}) :
       getRequests(w, limit, offset, f)
  \/ \E w \in Webhooks, id \in RequestIds, f \in FaultsOf(provider, {}) : deleteRequest(w, id, f)
  \/ \E w \in Webhooks, f \in FaultsOf(provider, {"bad"}) : clearRequests(w, f)
  \/ \E w \in Webhooks, c \in ConfigTimes, f \in FaultsOf(provider, {"init"}) :
       saveWebhookConfig(w, c, 0, f)
  \/ \E w \in Webhooks, f \in FaultsOf(provider, {}) : getWebhookConfig(w, f)
  \/ \E f \in FaultsOf(provider, {"badConfigs"}) : getAllWebhookConfigs(f)
  \/ \E w \in Webhooks, f \in FaultsOf(provider, {}) : deleteWebhookConfig(w, f)
  \/ \E h \in RetentionChoices, f \in FaultsOf(provider, {"bad"}) : cleanupExpiredRequests(h, f)
  \/ \E f \in FaultsOf(provider, {}) : isHealthy(f)
  \/ \E f \in FaultsOf(provider, {"init", "badConfigs"}) : getStats(f)

Next ==
  \/ Operations
  \/ DropTables

Spec == Init /\ [][Next]_vars

\* ------------------------------------------- backend selection on its own
\* every environment snapshot, before a manager is built
InitSelect ==
  /\ env \in Environments
  /\ hook = HookInit
  /\ provider = "none"
  /\ database = EmptyDatabase
  /\ initialized = FALSE
  /\ now = StartTime
  /\ usedIds = {}
  /\ requests = EmptyMap
  /\ configs = EmptyMap
  /\ bucket = {}
  /\ lastPollTime = EmptyMap
  /\ saved = [w \in Webhooks |-> <<>>]
  /\ sequential = Webhooks
  /\ captured = [w \in Webhooks |-> {}]
  /\ last = Step("init", 0, FALSE, <<>>, 0, 0, Return("void"), Return("void"), "none")

\* createStorageManager(env): resolve the backend, then build its provider
create(initFails) ==
  /\ last.op = "init"
  /\ LET m == createStorageManager(env, initFails)
     IN /\ provider' = IF m.threw THEN "none" ELSE m.value
        /\ database' = IF ~m.threw /\ m.value = "d1"
                         THEN [database EXCEPT !.tables = TRUE] ELSE database
        /\ initialized' = (~m.threw /\ m.value = "d1")
        /\ last' = Step("createStorageManager", 0, FALSE, <<>>, 0, initFails,
                        getPreferredStorageProvider(env), m, "none")
  /\ UNCHANGED <<hook, env, now, usedIds, requests, configs, bucket, lastPollTime,
                 saved, sequential, captured>>

\* getPreferredStorageProvider(env) evaluated again on the same environment;
\* pre keeps the outcome of the evaluation before
resolve ==
  /\ last.op \in {"createStorageManager", "getPreferredStorageProvider"}
  /\ LET out == getPreferredStorageProvider(env)
     IN last' = Step("getPreferredStorageProvider", 0, FALSE, <<>>, 0, 0, out, out,
                     last.backendOut)
  /\ UNCHANGED <<hook, env, provider, now, usedIds, requests, configs, database, initialized,
                 bucket, lastPollTime, saved, sequential, captured>>

NextSelect ==
  \/ \E initFails \in BOOLEAN : create(initFails)
  \/ resolve

SpecSelect == InitSelect /\ [][NextSelect]_vars

\* ------------------------------------------------ the HTTP handlers alone
NextHttp ==
  \/ \E w \in Webhooks \cup {BadId}, f \in HandlerFaults({}) : handleRequest(w, generateId, f)
  \/ \E w \in Webhooks \cup {BadId}, f \in HandlerFaults({"bad"}) : GET(w, f)
  \/ Tick

SpecHttp == Init /\ [][NextHttp]_vars

\* ------------------------------------------- retention, with time passing
\* a request is captured (its timestamp) no later than it is stored
NextRetention ==
  \/ \E w \in Webhooks, ts \in {now - MsPerHour, now}, f \in FaultsOf(provider, {}) :
       saveRequest(w, generateId, ts, f)
  \/ \E h \in RetentionChoices, f \in FaultsOf(provider, {"bad"}) : cleanupExpiredRequests(h, f)
  \/ Tick

SpecRetention == Init /\ [][NextRetention]_vars

\* ------------------------------------------------- the configs on their own
\* configs saved with and without a lastRequestAt, and read back
NextConfig ==
  \/ \E w \in Webhooks, c \in ConfigTimes, l \in LastRequestTimes,
        f \in FaultsOf(provider, {"init"}) :
       saveWebhookConfig(w, c, l, f)
  \/ \E w \in Webhooks, f \in FaultsOf(provider, {}) : getWebhookConfig(w, f)

SpecConfig == Init /\ [][NextConfig]_vars

\* ------------------------------------------------- paging through a list
SmallLimits == {1, 2}

SmallOffsets == {0, 1}

\* getRequests with limits and offsets below the number of stored requests
NextList ==
  \/ \E w \in Webhooks, f \in FaultsOf(provider, {}) : saveRequest(w, generateId, now, f)
  \/ \E w \in Webhooks, limit \in SmallLimits, offset \in SmallOffsets,
        f \in FaultsOf(provider, {}) :
       getRequests(w, limit, offset, f)
  \/ Tick

SpecList == Init /\ [][NextList]_vars

\* ------------------------------------------- captures arriving one by one
\* each call runs when it is made; a call that was made is not held back
NextCapture ==
  \/ \E w \in Webhooks, f \in FaultsOf(provider, {"init", "retry"}) :
       saveRequest(w, generateId, now, f)
  \/ Tick

SpecCapture == Init /\ [][NextCapture]_vars /\ WF_vars(NextCapture)

\* ------------------------------------------------ deleting many at once
\* retention periods short enough for an upload to expire within MaxNow
ShortRetention == {0, 1}

NextBulk ==
  \/ \E w \in Webhooks, f \in FaultsOf(provider, {}) : saveRequest(w, generateId, now, f)
  \/ \E w \in Webhooks, f \in FaultsOf(provider, {"bad"}) : clearRequests(w, f)
  \/ \E h \in ShortRetention, f \in FaultsOf(provider, {"bad"}) : cleanupExpiredRequests(h, f)
  \/ Tick

SpecBulk == Init /\ [][NextBulk]_vars

\* ------------------------------------------- the distributions of getStats
\* body sizes at and around the bounds of the size ranges
BodySizes == {0, 1023, 1024, 5000, 10239, 10240, 102399, 102400, 1048575, 1048576}

\* the instant at which the report is computed
ReportTime == 48 * MsPerHour

\* capture times up to the instant of the report, at and around the cutoffs
CaptureTimes ==
  {ReportTime - d : d \in {0, 1, MsPerHour - 1, MsPerHour, 6 * MsPerHour - 1, 6 * MsPerHour,
                           24 * MsPerHour - 1, 24 * MsPerHour, 24 * MsPerHour + 1}}

\* allRequests with at most maxRequestsPerWebhook entries; one report is
\* computed per list
ListsOf(S) == UNION {[1..n -> S] : n \in 0..maxRequestsPerWebhook}

reportSizes(allSizes) ==
  /\ last.op = "init"
  /\ LET out == Return(requestSizeDistribution(allSizes))
     IN last' = Step("requestSizeDistribution", 1, FALSE, <<>>, 0, allSizes, out, out, "none")
  /\ UNCHANGED <<hook, env, provider, now, usedIds, requests, configs, database, initialized,
                 bucket, lastPollTime, saved, sequential, captured>>

reportTimes(allTimes, t) ==
  /\ last.op = "init"
  /\ LET out == Return(timeDistribution(allTimes, t))
     IN last' = Step("timeDistribution", 1, FALSE, <<>>, 0, allTimes, out, out, t)
  /\ UNCHANGED <<hook, env, provider, now, usedIds, requests, configs, database, initialized,
                 bucket, lastPollTime, saved, sequential, captured>>

NextStats ==
  \/ \E allSizes \in ListsOf(BodySizes) : reportSizes(allSizes)
  \/ \E allTimes \in ListsOf(CaptureTimes) : reportTimes(allTimes, ReportTime)

SpecStats == Init /\ [][NextStats]_vars

\* ------------------------------------------------- the usePolling hook
\* The user's only action is the manual refresh; enabled stays true and
\* polling is not paused. A pending timer fires and a fetch settles (the
\* event loop runs every callback that is due); how often the user clicks
\* is bounded.
MaxRefreshes == 2

\* the automatic fetch settles; pollFunction goes on to schedule the next poll
pollSettled(ok) ==
  /\ hook.polling
  /\ LET schedule == hook.isPollingActiveRef /\ ~hook.isPaused
     IN hook' = [hook EXCEPT !.polling = FALSE,
                             !.isConnected = ok,
                             !.timers = IF schedule THEN @ \cup {"poll"} ELSE @,
                             !.timeoutRef = IF schedule THEN "poll" ELSE @,
                             !.event = "polled"]
  /\ UNCHANGED <<env, provider, now, usedIds, requests, configs, database, initialized,
                 bucket, lastPollTime, saved, sequential, captured, last>>

\* the timer set by pollFunction fires and calls pollFunction
pollFunction ==
  /\ "poll" \in hook.timers
  /\ LET returns == ~hook.isPollingActiveRef \/ hook.isPaused
     IN hook' = [hook EXCEPT !.timers = @ \ {"poll"},
                             !.polling = IF returns THEN @ ELSE TRUE,
                             !.event = IF returns THEN "idle" ELSE "poll"]
  /\ UNCHANGED <<env, provider, now, usedIds, requests, configs, database, initialized,
                 bucket, lastPollTime, saved, sequential, captured, last>>

\* the user asks for a manual refresh; its fetch starts
refreshNow ==
  /\ ~hook.loading
  /\ hook.refreshes < MaxRefreshes
  /\ hook' = [hook EXCEPT !.loading = TRUE, !.refreshes = @ + 1, !.event = "refreshNow"]
  /\ UNCHANGED <<env, provider, now, usedIds, requests, configs, database, initialized,
                 bucket, lastPollTime, saved, sequential, captured, last>>

\* the manual fetch settles; on success refreshNow clears the timer
\* timeoutRef refers to and sets one whose callback clears isPollingActiveRef
refreshSettled(ok) ==
  /\ hook.loading
  /\ LET restart == ok /\ ~hook.isPaused
     IN hook' = [hook EXCEPT !.loading = FALSE,
                             !.isConnected = ok,
                             !.timers = IF restart THEN (@ \ {hook.timeoutRef}) \cup {"restart"}
                                        ELSE @,
                             !.timeoutRef = IF restart THEN "restart" ELSE @,
                             !.event = IF ok THEN "refreshed" ELSE "refreshFailed"]
  /\ UNCHANGED <<env, provider, now, usedIds, requests, configs, database, initialized,
                 bucket, lastPollTime, saved, sequential, captured, last>>

\* the timer set by refreshNow fires
restartTimer ==
  /\ "restart" \in hook.timers
  /\ hook' = [hook EXCEPT !.timers = @ \ {"restart"},
                          !.isPollingActiveRef = FALSE,
                          !.event = "restarted"]
  /\ UNCHANGED <<env, provider, now, usedIds, requests, configs, database, initialized,
                 bucket, lastPollTime, saved, sequential, captured, last>>

NextPolling ==
  \/ \E ok \in BOOLEAN : pollSettled(ok)
  \/ pollFunction
  \/ refreshNow
  \/ \E ok \in BOOLEAN : refreshSettled(ok)
  \/ restartTimer

SpecPolling ==
  /\ Init
  /\ [][NextPolling]_vars
  /\ WF_vars(\E ok \in BOOLEAN : pollSettled(ok))
  /\ WF_vars(pollFunction)
  /\ WF_vars(\E ok \in BOOLEAN : refreshSettled(ok))
  /\ WF_vars(restartTimer)

\* ================================================================ properties
\* the requests stored for webhook w on the provider under test
Stored(w) == StoredFor(provider, PS, w)

\* C1: on every backend and for every webhook the number of stored requests
\* never exceeds maxRequestsPerWebhook, whatever was saved
C1_CapOnEveryBackend ==
  \A w \in Webhooks : Cardinality(Stored(w)) <= maxRequestsPerWebhook

\* C2: on the memory backend a request the ingress handler accepted is
\* returned by every later poll of the same webhook (nothing in between
\* deletes it, evicts it or cleans it up: it is the webhook's latest request)
C2_IngressVisibleToPoll ==
  (last.op = "GET" /\ provider = "memory" /\ last.out.value.status = 200)
    => \A r \in captured[last.webhookId] :
         \E i \in DOMAIN last.out.value.requests : last.out.value.requests[i] = r

\* C3: after deleteWebhookConfig(w) has deleted an existing config, no
\* request of w remains stored, on each backend
C3_DeleteConfigCascades ==
  (last.op = "deleteWebhookConfig" /\ last.pre /\ ~last.out.threw /\ last.out.value)
    => Stored(last.webhookId) = {}

\* C4: deleteRequest returns false without throwing when the request is not
\* stored, and true, removing it, when it is (hence false when repeated), on
\* each backend; calls whose storage operation failed are left aside
C4_DeleteRequestResult ==
  (last.op = "deleteRequest" /\ ~last.fault)
    => /\ ~last.out.threw
       /\ last.out.value = last.pre
       /\ \A x \in Stored(last.webhookId) : x.id # last.requestId

\* C5: cleanupExpiredRequests(retentionHours) removes exactly the stored
\* requests captured before now - retentionHours (a request captured at the
\* cutoff itself is left open), keeps the newer ones, returns the number it
\* removed, and an immediate second call returns 0, on each backend; calls
\* whose storage operation failed are left aside
C5_CleanupExact ==
  (last.op = "cleanupExpiredRequests" /\ ~last.fault)
    => LET before == last.pre.stored
           cutoff == last.pre.cutoff
           after == StoredRequests(provider, PS)
       IN /\ ~last.out.threw
          /\ \A r \in before : r.timestamp < cutoff => r \notin after
          /\ \A r \in before : r.timestamp > cutoff => r \in after
          /\ last.out.value = Cardinality(before \ after)
          /\ Provider_cleanupExpiredRequests(provider, PS, last.arg, now, NoFault).out.value = 0

\* C6: on the memory backend, for a webhook that saw nothing but saves,
\* getRequests (limit >= cap, offset 0) returns the requests saved to it,
\* most recent first, cut to the maxRequestsPerWebhook most recent
C6_MemoryNewestFirst ==
  (last.op = "getRequests" /\ provider = "memory" /\ last.webhookId \in sequential)
    => LET all == saved[last.webhookId]
       IN last.out = Return(SubSeq(all, 1, Min(Len(all), maxRequestsPerWebhook)))

\* more saves than the cap to one webhook, then a read that returns cap of
\* them, the last one saved first
C6_Witness ==
  /\ last.op = "getRequests"
  /\ provider = "memory"
  /\ last.webhookId \in sequential
  /\ Len(saved[last.webhookId]) > maxRequestsPerWebhook
  /\ Len(last.out.value) = maxRequestsPerWebhook
  /\ last.out.value[1].id = Cardinality(usedIds)

\* C7: in every getStats report, on every backend, the request counts of
\* webhookDistribution add up to totalRequests
C7_DistributionSumsToTotal ==
  (last.op = "getStats" /\ ~last.out.threw)
    => LET stats == last.out.value
       IN SumOver(DOMAIN stats.webhookDistribution, stats.webhookDistribution)
            = stats.totalRequests

C9_AbsentOnlyWhenAbsent ==
  /\ (last.op \in {"deleteRequest", "deleteWebhookConfig"} /\ ~last.backendOut.threw
        /\ ~last.backendOut.value) => ~last.pre
  /\ (last.op = "getWebhookConfig" /\ ~last.backendOut.threw
        /\ last.backendOut.value = {}) => ~last.pre

\* C10: with no override, the resolution answers d1 when WEBHOOK_DB is bound
\* and has a prepare method, else r2 when WEBHOOK_STORAGE is bound, else
\* throws in production and answers memory otherwise
C10_AutoDetect ==
  (last.op = "createStorageManager" /\ env.STORAGE_PROVIDER = "")
    => LET r == last.backendOut
       IN IF env.WEBHOOK_DB = "db" THEN ~r.threw /\ r.value = "d1"
          ELSE IF env.WEBHOOK_STORAGE THEN ~r.threw /\ r.value = "r2"
          ELSE IF env.production THEN r.threw
          ELSE ~r.threw /\ r.value = "memory"

\* no override, a WEBHOOK_DB without prepare, no bucket, production: the
\* resolution has thrown
C10_Witness ==
  /\ last.op = "createStorageManager"
  /\ env.STORAGE_PROVIDER = ""
  /\ env.WEBHOOK_DB = "stub"
  /\ ~env.WEBHOOK_STORAGE
  /\ env.production
  /\ last.backendOut.threw

\* C11: with the override "d1" and WEBHOOK_DB absent, or bound to an object
\* without a prepare method, the resolution throws the binding-not-found
\* StorageError (provider d1, isD1BindingError true) and no manager is built
C11_D1OverrideNeedsBinding ==
  (last.op = "createStorageManager" /\ env.STORAGE_PROVIDER = "d1"
     /\ env.WEBHOOK_DB \in {"absent", "stub"})
    => /\ last.backendOut.threw
       /\ last.backendOut.err.name = "StorageError"
       /\ last.backendOut.err.provider = "d1"
       /\ isD1BindingError(last.backendOut.err)
       /\ last.out = last.backendOut
       /\ provider = "none"

\* the override is d1, WEBHOOK_DB has no prepare method, a bucket is bound:
\* the resolution has thrown the binding error
C11_Witness ==
  /\ last.op = "createStorageManager"
  /\ env.STORAGE_PROVIDER = "d1"
  /\ env.WEBHOOK_DB = "stub"
  /\ env.WEBHOOK_STORAGE
  /\ last.out.threw
  /\ isD1BindingError(last.out.err)

\* C12: with the override "r2" and WEBHOOK_STORAGE absent, the resolution
\* throws a StorageError, the error class of a missing table binding, and
\* no manager of any backend is built
C12_R2OverrideNeedsBinding ==
  (last.op = "createStorageManager" /\ env.STORAGE_PROVIDER = "r2"
     /\ ~env.WEBHOOK_STORAGE)
    => /\ last.out.threw
       /\ last.out.err.name = "StorageError"
       /\ provider = "none"

\* C13: with the override "memory" the resolution answers memory and the
\* manager is built on the memory provider, in every environment
C13_MemoryOverrideAlwaysSucceeds ==
  (last.op = "createStorageManager" /\ env.STORAGE_PROVIDER = "memory")
    => /\ last.backendOut = Return("memory")
       /\ last.out = Return("memory")
       /\ provider = "memory"

\* the override is memory in production with both bindings present
C13_Witness ==
  /\ last.op = "createStorageManager"
  /\ env.STORAGE_PROVIDER = "memory"
  /\ env.production
  /\ env.WEBHOOK_DB = "db"
  /\ env.WEBHOOK_STORAGE
  /\ provider = "memory"

\* C15: once a manager is built, no operation on it, failed ones and the D1
\* re-initialization retry included, changes the provider it delegates to or
\* the type getProviderInfo reports
C15_BackendNeverChanges ==
  [][/\ provider' = provider
     /\ getProviderInfo(provider').type = getProviderInfo(provider).type]_vars

\* a save on the D1 manager went through re-initialization and failed on the
\* retry; the manager is still on D1
C15_Witness ==
  /\ provider = "d1"
  /\ getProviderInfo(provider).type = "d1"
  /\ last.op = "saveRequest"
  /\ last.out.threw
  /\ last.out.err = StorageError("Failed to save request after retry", "d1")

\* C16: after the ingress handler has captured a request for a webhook (on
\* the persistent backends, whose store outlives the handler's manager), the
\* webhook has a config and its requestCount is the number of requests
\* stored for the webhook
C16_ConfigTracksRequests ==
  (last.op = "handleRequest" /\ last.out.value.status = 200
     /\ getPreferredStorageProvider(env).value \in {"d1", "r2"})
    => LET b == getPreferredStorageProvider(env).value
           cfg == Provider_getWebhookConfig(b, PS, last.webhookId, NoFault).value
       IN /\ cfg # {}
          /\ \A c \in cfg : c.requestCount = Cardinality(StoredFor(b, PS, last.webhookId))

\* C17: on D1, a saveRequest or saveWebhookConfig that finds its table
\* missing (flag set, tables gone) re-initializes and retries once; with
\* nothing else failing the second attempt succeeds: two attempts, no error,
\* the flag set and the tables back
C17_MissingTableRetried ==
  [][(provider = "d1" /\ initialized /\ ~database.tables
        /\ last'.op \in {"saveRequest", "saveWebhookConfig"} /\ ~last'.fault)
       => (last'.tries = 2 /\ ~last'.out.threw /\ initialized' /\ database'.tables)]_vars

\* C18: no operation issues its storage statement more than twice, and a
\* second attempt is made only by the D1 saveRequest that found its table
\* missing; a failure for any other reason ends the operation after the
\* first attempt
C18_AtMostOneRetry ==
  [][/\ last'.tries <= 2
     /\ last'.tries = 2
          => (provider = "d1" /\ last'.op = "saveRequest"
                /\ initialized /\ ~database.tables)
     /\ (last'.tries >= 1 /\ last'.out.threw /\ ~(initialized /\ ~database.tables))
          => last'.tries = 1]_vars

\* a D1 save found the table missing, re-initialized and failed on its one
\* retry
C18_Witness ==
  /\ provider = "d1"
  /\ last.op = "saveRequest"
  /\ last.tries = 2
  /\ last.out.threw
  /\ initialized
  /\ database.tables

\* C19: on D1, an operation (save, get, delete, clear, the config
\* operations, cleanup, stats) called while the initialized flag is clear
\* creates the schema before its own statement: unless a storage call fails,
\* the flag is set and the tables exist afterwards
C19_SchemaCreatedOnFirstUse ==
  [][(provider = "d1" /\ ~initialized /\ ~last'.fault
        /\ last'.op \in {"saveRequest", "getRequests", "deleteRequest", "clearRequests",
                         "saveWebhookConfig", "getWebhookConfig", "getAllWebhookConfigs",
                         "deleteWebhookConfig", "cleanupExpiredRequests", "getStats"})
       => (initialized' /\ database'.tables)]_vars

\* C20: on D1, the config read back after saveWebhookConfig(c) has c's id
\* and requestCount and, to the second, c's createdAt and lastRequestAt
C20_ConfigTimesRoundTrip ==
  (provider = "d1" /\ last.op = "saveWebhookConfig" /\ ~last.out.threw)
    => LET c == last.arg
           got == Provider_getWebhookConfig(provider, PS, c.id, NoFault).value
       IN /\ got # {}
          /\ \A g \in got :
               /\ g.id = c.id
               /\ g.requestCount = c.requestCount
               /\ g.createdAt \div 1000 = c.createdAt \div 1000
               /\ g.lastRequestAt \div 1000 = c.lastRequestAt \div 1000


\* the upload times of a set of bucket objects, newest first
RECURSIVE UploadTimesDesc(_)
UploadTimesDesc(S) ==
  IF S = {} THEN <<>>
  ELSE LET m == CHOOSE x \in S : \A y \in S : x.uploaded >= y.uploaded
       IN <<m.uploaded>> \o UploadTimesDesc(S \ {m})

\* the objects stored under webhook w in the bucket
ObjectsOf(w) == {o \in bucket : o.key.dir = "requests" /\ o.key.webhookId = w}

\* C21: on R2, getRequests(w, limit, offset) returns the requests ranked
\* offset+1 .. offset+limit by upload time among all requests stored under
\* w, also when more than limit+offset are stored (no other webhook id
\* extends w here, and no storage call failed)
C21_PageOfAllByUploadTime ==
  (last.op = "getRequests" /\ provider = "r2" /\ ~last.fault
     /\ \A o \in bucket : UnderRequestPath(o.key, last.webhookId)
                            => o.key.webhookId = last.webhookId)
    => LET all == ObjectsOf(last.webhookId)
           limit == last.arg[1]
           offset == last.arg[2]
           page == last.out.value
       IN /\ ~last.out.threw
          /\ \A i \in DOMAIN page : \E o \in all : o.body = page[i]
          /\ \A i, j \in DOMAIN page : i # j => page[i] # page[j]
          /\ [i \in DOMAIN page |-> (CHOOSE o \in all : o.body = page[i]).uploaded]
               = Slice(UploadTimesDesc(all), offset, offset + limit)

\* a saveRequest for a webhook of the memory provider that saw only saves
MemorySaveDone == last.op = "saveRequest" /\ provider = "memory"

\* the length the call read before truncating counts its own insert and
\* every earlier capture of the webhook still kept
ObservedAll ==
  last.pre = Min(Len(saved[last.webhookId]), maxRequestsPerWebhook + 1)

RequestObjects == {o \in bucket : o.key.dir = "requests"}

\* C23: on R2, when the listing succeeded, clearRequests and
\* cleanupExpiredRequests do not throw although single deletes fail; every
\* listed (resp. expired) object whose delete did not fail is gone, and
\* cleanupExpiredRequests returns the number of objects it removed
C23_BulkDeleteBestEffort ==
  /\ (last.op = "clearRequests" /\ provider = "r2" /\ ~last.arg.q)
       => /\ ~last.out.threw
          /\ \A o \in RequestObjects :
               UnderRequestPath(o.key, last.webhookId) => o.key.requestId \in last.arg.bad
  /\ (last.op = "cleanupExpiredRequests" /\ provider = "r2" /\ ~last.pre.f.q)
       => /\ ~last.out.threw
          /\ \A o \in RequestObjects :
               o.uploaded < last.pre.cutoff => o.key.requestId \in last.pre.f.bad
          /\ last.out.value = Cardinality(last.pre.stored) - Cardinality(RequestObjects)

\* two uploads had expired, one delete failed, the other was still done
C23_Witness ==
  /\ last.op = "cleanupExpiredRequests" /\ provider = "r2" /\ ~last.pre.f.q
  /\ Cardinality(last.pre.stored) = 2
  /\ last.out.value = 1
  /\ \E o \in RequestObjects : o.uploaded < last.pre.cutoff /\ o.key.requestId \in last.pre.f.bad

\* C24: on every backend, totalRequests of a getStats report is the number
\* of requests stored across all webhooks, with or without a config (no
\* storage call failed)
C24_TotalCountsEveryRequest ==
  (last.op = "getStats" /\ ~last.fault /\ ~last.out.threw)
    => last.out.value.totalRequests = Cardinality(StoredRequests(provider, PS))

\* C25: in every getStats report webhooksWithRequests is the number of
\* webhooks that have at least one stored request (no storage call failed)
C25_CountsWebhooksWithRequests ==
  (last.op = "getStats" /\ ~last.fault /\ ~last.out.threw)
    => last.out.value.webhooksWithRequests
         = Cardinality({w \in Webhooks : Stored(w) # {}})

\* the sum of the counts of a distribution
TotalCount(dist) == SumOver(DOMAIN dist, [i \in DOMAIN dist |-> dist[i].count])

\* C26: the five size buckets count the requests with bodySize in
\* [0,1024), [1024,10240), [10240,102400), [102400,1048576), [1048576,inf),
\* their counts add up to totalRequests (the length of allRequests), and a
\* request of 5000 bytes is counted in '1KB-10KB'
C26_SizeBucketsPartition ==
  (last.op = "requestSizeDistribution")
    => LET allSizes == last.arg
           dist == last.out.value
           lower == <<0, 1024, 10240, 102400, 1048576>>
           within(i) == {k \in DOMAIN allSizes :
                           /\ allSizes[k] >= lower[i]
                           /\ i < 5 => allSizes[k] < lower[i + 1]}
       IN /\ DOMAIN dist = 1..5
          /\ \A i \in 1..5 : dist[i].count = Cardinality(within(i))
          /\ TotalCount(dist) = Len(allSizes)
          /\ dist[2].sizeRange = "1KB-10KB"
          /\ dist[2].count >= Cardinality({k \in DOMAIN allSizes : allSizes[k] = 5000})

\* a request of 5000 bytes and one of exactly 1024 bytes, both in '1KB-10KB'
C26_Witness ==
  /\ last.op = "requestSizeDistribution"
  /\ last.arg = <<5000, 1024>>
  /\ last.out.value[2].count = 2
  /\ last.out.value[1].count = 0

\* C27: the counts of the four time buckets add up to totalRequests (the
\* length of allRequests) for every capture time up to and including the
\* instant of the report
C27_TimeBucketsPartition ==
  (last.op = "timeDistribution")
    => TotalCount(last.out.value) = Len(last.arg)

\* C28: on every backend getRequests(A) returns only requests saved under
\* A, and clearRequests(A) and deleteRequest(A, id) leave the requests
\* stored under every other webhook id in place, also when A is a proper
\* prefix of that id
C28_WebhooksIsolated ==
  [][/\ (last'.op = "getRequests" /\ ~last'.out.threw)
        => \A i \in DOMAIN last'.out.value :
             last'.out.value[i].webhookId = last'.webhookId
     /\ (last'.op \in {"clearRequests", "deleteRequest"})
        => \A B \in Webhooks \ {last'.webhookId} : Stored(B)' = Stored(B)]_vars

\* C29: the ingress handler answers 200 with success = true only if the id
\* is valid and saveRequest completed without throwing; when building the
\* manager or saving threw it answers 503 or 500 with success = false; for
\* an invalid id it answers 400 and writes nothing to any storage
C29_IngressAnswerFollowsSave ==
  [][(last'.op = "handleRequest")
       => LET res == last'.out.value
              valid == isValidWebhookId(last'.webhookId)
          IN /\ (res.status = 200 \/ res.success)
                  => (res.status = 200 /\ res.success /\ valid /\ ~last'.backendOut.threw)
             /\ (valid /\ last'.backendOut.threw)
                  => (res.status \in {503, 500} /\ ~res.success)
             /\ ~valid
                  => /\ res.status = 400 /\ ~res.success
                     /\ database' = database /\ bucket' = bucket /\ requests' = requests
                     /\ configs' = configs]_vars

\* a capture whose save failed on D1 and was answered 503
C29_Witness ==
  /\ last.op = "handleRequest"
  /\ isValidWebhookId(last.webhookId)
  /\ last.backendOut.threw
  /\ last.out.value.status = 503
  /\ ~last.out.value.success

\* C30: once a manual refresh has succeeded (polling enabled, not paused),
\* automatic polls keep being issued: from then on an automatic poll is
\* issued again and again
C30_PollingContinuesAfterRefresh ==
  [](hook.event = "refreshed" => []<>(hook.event = "poll"))

====
